---- MODULE Spec2Model ----
(***************************************************************************)
(* SmartEnumCpp: the per-type instance registry of SmartEnum and           *)
(* SmartFlagEnum, the flag-definition validator and the flag decomposer.   *)
(*                                                                         *)
(* The repository holds two generations of each header.  The variable      *)
(* `variant` says which one a behaviour runs:                              *)
(*   "src"     - unnamed/part_004 (SmartEnum) and src/SmartFlagEnum.hpp    *)
(*   "include" - include/SmartEnum.hpp and the SmartFlagEnum header that   *)
(*               is inlined in examples/polymorphic_smart_enum.cpp         *)
(* One behaviour is the life of one enumeration type T (`kind` says        *)
(* whether T derives from SmartEnum or from SmartFlagEnum, and the two     *)
(* capability markers say which marker structs T also derives from).       *)
(*                                                                         *)
(* A std::string is a sequence of one-character strings.  A pointer to an  *)
(* instance is the record [id, name, value, live]: id is the object's      *)
(* identity, live is FALSE for a pointer whose object was never completed  *)
(* (its constructor threw after the pointer had been stored).              *)
(***************************************************************************)
EXTENDS Integers, Sequences, FiniteSets, TLC

VARIABLES
    variant,              \* which generation of the headers is compiled
    kind,                 \* "SmartEnum" or "SmartFlagEnum"
    allowNegative,        \* T derives from AllowNegativeFlagEnumInput
    allowUnsafe,          \* T derives from AllowUnsafeFlagEnumValues
    instances,            \* instances(): std::vector<const TEnum*>
    nameMap,              \* nameMap(): exact name -> instance
    nameMapIgnoreCase,    \* nameMapIgnoreCase(): lower-cased name -> instance
    valueMap,             \* valueMap(): value -> instance
    definitionsValidated, \* definitionsValidated(): static bool
    listInitFlag,         \* listInitFlag_: the std::once_flag of List() has fired
    builder,              \* the SmartEnumSwitchBuilder of the chain being written
    last                  \* the last call made on T and what it produced

vars == <<variant, kind, allowNegative, allowUnsafe, instances, nameMap,
          nameMapIgnoreCase, valueMap, definitionsValidated, listInitFlag,
          builder, last>>

typeVars == <<variant, kind, allowNegative, allowUnsafe>>

registry == <<instances, nameMap, nameMapIgnoreCase, valueMap>>

-----------------------------------------------------------------------------
(* Bounds *)

\* Free constructions (any name, any value) are explored up to this many
\* entries of instances(); the declared types of Fixtures go to their end.
MaxInstances == 2

-----------------------------------------------------------------------------
(* Strings *)

UpperChars == <<"A","B","C","D","E","F","G","H","I","J","K","L","M",
                "N","O","P","Q","R","S","T","U","V","W","X","Y","Z">>

LowerChars == <<"a","b","c","d","e","f","g","h","i","j","k","l","m",
                "n","o","p","q","r","s","t","u","v","w","x","y","z">>

\* ::tolower on one character (C locale)
ToLowerChar(c) ==
    IF \E i \in 1..Len(UpperChars) : UpperChars[i] = c
    THEN LowerChars[CHOOSE i \in 1..Len(UpperChars) : UpperChars[i] = c]
    ELSE c

\* std::transform(lower.begin(), lower.end(), lower.begin(), ::tolower)
ToLower(s) == [i \in 1..Len(s) |-> ToLowerChar(s[i])]

\* The characters of the modelled strings in the order of their codes.
Ascii == <<"\t", " ", ",", "0", "1", "2", "3", "4", "5", "6", "7", "8", "9">>
         \o UpperChars \o LowerChars

CharCode(c) == CHOOSE i \in 1..Len(Ascii) : Ascii[i] = c

\* std::string operator< : lexicographic by character code
RECURSIVE StrLess(_, _)
StrLess(a, b) ==
    IF b = <<>> THEN FALSE
    ELSE IF a = <<>> THEN TRUE
    ELSE IF a[1] # b[1] THEN CharCode(a[1]) < CharCode(b[1])
    ELSE StrLess(Tail(a), Tail(b))

\* The characters part.find_first_not_of(" \t") skips, and the characters
\* isspace() holds for (of those that occur in the modelled strings).
BlankChars == { " ", "\t" }

IsSpaceChars == { " ", "\t" }

\* part.erase(0, part.find_first_not_of(ws))
RECURSIVE TrimLeft(_, _)
TrimLeft(part, ws) ==
    IF part # <<>> /\ part[1] \in ws THEN TrimLeft(Tail(part), ws) ELSE part

\* part.erase(part.find_last_not_of(ws) + 1)
RECURSIVE TrimRight(_, _)
TrimRight(part, ws) ==
    IF part # <<>> /\ part[Len(part)] \in ws
    THEN TrimRight(SubSeq(part, 1, Len(part) - 1), ws)
    ELSE part

Trim(part, ws) == TrimRight(TrimLeft(part, ws), ws)

\* names taken as one part, whatever commas it holds.
SplitNone(names) == << names >>

\* The parts of names between its commas, as the loops over
\* names.find(",", start) cut them: a string without a comma is one part, and
\* the part after a trailing comma is empty.
RECURSIVE Split(_)
Split(names) ==
    IF \E i \in 1..Len(names) : names[i] = ","
    THEN LET end == CHOOSE i \in 1..Len(names) :
                        /\ names[i] = ","
                        /\ \A j \in 1..(i - 1) : names[j] # ","
         IN << SubSeq(names, 1, end - 1) >>
               \o Split(SubSeq(names, end + 1, Len(names)))
    ELSE << names >>

-----------------------------------------------------------------------------
(* Bitwise operators of a two's-complement integer.  They are computed on   *)
(* the unbounded two's-complement expansion, which agrees with the machine  *)
(* int on every value that fits the int; none of them can overflow.         *)

RECURSIVE BitAnd(_, _)
BitAnd(a, b) ==
    IF a = 0 \/ b = 0 THEN 0
    ELSE IF a = -1 THEN b
    ELSE IF b = -1 THEN a
    ELSE (a % 2) * (b % 2) + 2 * BitAnd(a \div 2, b \div 2)

BitNot(a) == (-a) - 1

BitOr(a, b) == BitNot(BitAnd(BitNot(a), BitNot(b)))

-----------------------------------------------------------------------------
(* Maps *)

\* std::map::count(k) != 0
Has(m, k) == k \in DOMAIN m

\* m[k] = v  (insert or overwrite)
Put(m, k, v) == [x \in (DOMAIN m) \cup {k} |-> IF x = k THEN v ELSE m[x]]

EmptyMap == << >>

\* The pointer a failed lookup returns, as a result list: nullptr is <<>>,
\* a found instance is the one-element list holding it.
Found(m, k) == IF Has(m, k) THEN <<m[k]>> ELSE <<>>

-----------------------------------------------------------------------------
(* Inputs *)

\* Names and values a construction may be given.
FreeNames == { <<>>, <<"A">>, <<"a">> }

FreeValues == { 0, 1, 2, 3 }

\* Types declared in the tests and in the documentation, as the sequence of
\* their constructions <<name, value>>.
FlagsDecl ==
    << << <<"N","o","n","e">>, 0 >>, << <<"A">>, 1 >>, << <<"B">>, 2 >>,
       << <<"C">>, 4 >>, << <<"A","B">>, 3 >>, << <<"A","l","l">>, -1 >> >>

SparseFlagsDecl ==
    << << <<"B","i","t","1">>, 1 >>, << <<"B","i","t","3">>, 4 >> >>

OptionsDecl ==
    << << <<"O","p","t","i","o","n","A">>, 1 >>,
       << <<"O","p","t","i","o","n","B">>, 2 >>,
       << <<"O","p","t","i","o","n","C">>, 4 >>,
       << <<"O","p","t","i","o","n","D">>, 8 >> >>

StrictDecl == << << <<"A">>, 1 >>, << <<"B">>, 2 >>, << <<"C">>, 4 >> >>

GapDecl == << << <<"A">>, 1 >>, << <<"C">>, 4 >> >>

\* A type with a negative flag other than the sentinel: High holds every bit
\* from the third on, so -3 is A | High.
HighDecl == << << <<"A">>, 1 >>, << <<"H","i","g","h">>, -4 >> >>

Fixtures ==
    { FlagsDecl, SparseFlagsDecl, OptionsDecl, StrictDecl, GapDecl, HighDecl }

\* Arguments of the value queries and of the name queries.
QueryValues == { -5, -3, -1, 0, 3, 5, 7, 8, 16 }

QueryNames == { <<>>, <<"a">>, <<"b">> }

\* Comma-separated names given to the flag name queries, each with the
\* ignoreCase argument of the call.
CsvArgs ==
    { << <<>>, FALSE >>,
      << <<"A">>, FALSE >>,
      << <<"B", ",", " ", "A">>, FALSE >>,
      << <<"a", ",", ",", " ", "b", " ">>, TRUE >>,
      << <<",", " ">>, FALSE >>,
      << <<"A", ",", "b">>, FALSE >>,
      << <<"A", ",", "b">>, TRUE >>,
      << <<"a">>, TRUE >> }

\* Values given to FromValueToString and TryFromValueToString.
StringValues == { -1, 0, 3, 5, 8 }

\* The arguments of a query: the fixed ones and the names and values held by
\* the pointers of instances().
NameArgs(insts) == QueryNames \cup { insts[i].name : i \in 1..Len(insts) }

ValueArgs(insts) == QueryValues \cup { insts[i].value : i \in 1..Len(insts) }


\* The constructions made so far, successful or not, that left a pointer in
\* instances().
Declared(insts) == [i \in 1..Len(insts) |-> <<insts[i].name, insts[i].value>>]

\* The arguments of the next construction: any free name and value while
\* instances() holds fewer than MaxInstances pointers, and the next
\* declaration of a type of Fixtures whose earlier declarations have been
\* constructed.
CtorArgs(insts) ==
    (IF Len(insts) < MaxInstances THEN FreeNames \X FreeValues ELSE {})
    \cup { f[Len(insts) + 1] :
             f \in { g \in Fixtures : /\ Len(insts) < Len(g)
                                      /\ SubSeq(g, 1, Len(insts)) = Declared(insts) } }

-----------------------------------------------------------------------------
(* Calls *)

NoCall ==
    [op |-> "none", name |-> <<>>, value |-> 0, ignoreCase |-> FALSE,
     ok |-> FALSE, out |-> <<>>, str |-> <<>>, exc |-> "none",
     msg |-> <<"", 0>>]

\* A call record: the operation, its arguments, the bool a Try form returns,
\* the instances it produces, the string it produces and the exception that
\* leaves it ("none" when it returns).
Call(op, name, value, ignoreCase, ok, out, str, exc) ==
    [op |-> op, name |-> name, value |-> value, ignoreCase |-> ignoreCase,
     ok |-> ok, out |-> out, str |-> str, exc |-> exc, msg |-> <<"", 0>>]

\* The outcome of a call that reads through a dangling pointer: the call has
\* undefined behaviour, so it has no result that could be relied on, and
\* nothing is modelled of the program after it.
Undefined == "undefined"

Running == last.exc # Undefined

-----------------------------------------------------------------------------
(* Construction and registration *)

NewInstance(insts, n, v, alive) ==
    [id |-> Len(insts) + 1, name |-> n, value |-> v, live |-> alive]

\* The three indices after registering inst; value and lower-cased name keep
\* the entry they already have.
IndexName(m, inst) == Put(m, inst.name, inst)

\* IndexNameIgnoreCase with the count() test left out.
IndexNameIgnoreCaseOverwrite(m, inst) == Put(m, ToLower(inst.name), inst)

IndexNameIgnoreCase(m, inst) ==
    IF Has(m, ToLower(inst.name)) THEN m ELSE Put(m, ToLower(inst.name), inst)

\* IndexValue with the count() test left out: the last registrant of a value
\* takes the index entry.
IndexValueOverwrite(m, inst) == Put(m, inst.value, inst)

IndexValue(m, inst) ==
    IF Has(m, inst.value) THEN m ELSE Put(m, inst.value, inst)

\* No SmartEnumSwitchBuilder has been constructed.  stage is "none", then
\* "built" from SwitchOn on, then "done" once Default (which returns void)
\* has ended the chain; calls is the chain written so far and ran the
\* actions that have been run, in order.
NoBuilder ==
    [stage |-> "none", value_ |-> 0, handled_ |-> FALSE, lastMatch_ |-> FALSE,
     calls |-> <<>>, ran |-> <<>>]

TypeOK ==
    /\ variant \in {"src", "include"}
    /\ kind \in {"SmartEnum", "SmartFlagEnum"}
    /\ allowNegative \in BOOLEAN
    /\ allowUnsafe \in BOOLEAN
    /\ definitionsValidated \in BOOLEAN
    /\ listInitFlag \in BOOLEAN

Init ==
    /\ variant \in {"src", "include"}
    /\ kind \in {"SmartEnum", "SmartFlagEnum"}
    /\ allowNegative \in BOOLEAN
    /\ allowUnsafe \in BOOLEAN
    /\ (kind = "SmartEnum") => (~allowNegative /\ ~allowUnsafe)
    /\ instances = <<>>
    /\ nameMap = EmptyMap
    /\ nameMapIgnoreCase = EmptyMap
    /\ valueMap = EmptyMap
    /\ definitionsValidated = FALSE
    /\ listInitFlag = FALSE
    /\ builder = NoBuilder
    /\ last = NoCall

\* SmartEnum<TEnum>::registerInstance, unnamed/part_004: the duplicate check
\* comes first, so a throw leaves the registry as it was.
RegisterSrc(n, v) ==
    IF Has(nameMap, n)
    THEN /\ UNCHANGED registry
         /\ last' = Call("ctor", n, v, FALSE, FALSE, <<>>, <<>>, "std::runtime_error")
    ELSE LET inst == NewInstance(instances, n, v, TRUE) IN
         /\ instances' = Append(instances, inst)
         /\ nameMap' = IndexName(nameMap, inst)
         /\ nameMapIgnoreCase' = IndexNameIgnoreCase(nameMapIgnoreCase, inst)
         /\ valueMap' = IndexValue(valueMap, inst)
         /\ last' = Call("ctor", n, v, FALSE, TRUE, <<inst>>, <<>>, "none")

\* SmartEnum<TEnum>::registerInstance, include/SmartEnum.hpp: the pointer is
\* pushed before the duplicate check; when the check throws the object is
\* never completed and the pointer left in instances() dangles.
RegisterInclude(n, v) ==
    IF Has(nameMap, n)
    THEN /\ instances' = Append(instances, NewInstance(instances, n, v, FALSE))
         /\ UNCHANGED <<nameMap, nameMapIgnoreCase, valueMap>>
         /\ last' = Call("ctor", n, v, FALSE, FALSE, <<>>, <<>>, "std::runtime_error")
    ELSE LET inst == NewInstance(instances, n, v, TRUE) IN
         /\ instances' = Append(instances, inst)
         /\ nameMap' = IndexName(nameMap, inst)
         /\ nameMapIgnoreCase' = IndexNameIgnoreCase(nameMapIgnoreCase, inst)
         /\ valueMap' = IndexValue(valueMap, inst)
         /\ last' = Call("ctor", n, v, FALSE, TRUE, <<inst>>, <<>>, "none")

\* SmartEnum<TEnum>::SmartEnum(name, value)
SmartEnumCtor(n, v) ==
    /\ kind = "SmartEnum"
    /\ Running
    /\ IF n = <<>>
       THEN /\ UNCHANGED registry
            /\ last' = Call("ctor", n, v, FALSE, FALSE, <<>>, <<>>, "std::invalid_argument")
       ELSE IF variant = "src" THEN RegisterSrc(n, v) ELSE RegisterInclude(n, v)
    /\ UNCHANGED <<typeVars, definitionsValidated, listInitFlag, builder>>

\* SmartFlagEnum<TEnum>::SmartFlagEnum(name, value).  registerInstance of
\* src/SmartFlagEnum.hpp is that of part_004; the inlined header's is that
\* of include/SmartEnum.hpp and also resets definitionsValidated() when it
\* does not throw.
SmartFlagEnumCtor(n, v) ==
    /\ kind = "SmartFlagEnum"
    /\ Running
    /\ IF n = <<>>
       THEN /\ UNCHANGED <<registry, definitionsValidated>>
            /\ last' = Call("ctor", n, v, FALSE, FALSE, <<>>, <<>>, "std::invalid_argument")
       ELSE IF variant = "src"
            THEN /\ RegisterSrc(n, v)
                 /\ UNCHANGED definitionsValidated
            ELSE /\ RegisterInclude(n, v)
                 /\ definitionsValidated' =
                        IF Has(nameMap, n) THEN definitionsValidated ELSE FALSE
    /\ UNCHANGED <<typeVars, listInitFlag, builder>>

-----------------------------------------------------------------------------
(* SmartEnum queries *)

\* TryFromNameInternal looking every name up in the lower-cased index.
TryFromNameInternalFolded(name, ignoreCase) ==
    Found(nameMapIgnoreCase, ToLower(name))

\* TryFromNameInternal looking every name up in the exact index.
TryFromNameInternalExact(name, ignoreCase) == Found(nameMap, name)

\* SmartEnum<TEnum>::TryFromNameInternal.  include/SmartEnum.hpp returns
\* nullptr for an empty name before it looks at the maps.
TryFromNameInternal(name, ignoreCase) ==
    IF variant = "include" /\ name = <<>> THEN <<>>
    ELSE IF ignoreCase THEN Found(nameMapIgnoreCase, ToLower(name))
    ELSE Found(nameMap, name)

\* SmartEnum<TEnum>::TryFromValueInternal
TryFromValueInternal(value) == Found(valueMap, value)

\* SmartEnum<TEnum>::TryFromName
SmartEnumTryFromName(name, ignoreCase) ==
    /\ kind = "SmartEnum"
    /\ Running
    /\ LET outResult == TryFromNameInternal(name, ignoreCase) IN
       last' = Call("TryFromName", name, 0, ignoreCase,
                    outResult # <<>>, outResult, <<>>, "none")
    /\ UNCHANGED <<typeVars, registry, definitionsValidated, listInitFlag, builder>>

\* SmartEnum<TEnum>::FromName
SmartEnumFromName(name, ignoreCase) ==
    /\ kind = "SmartEnum"
    /\ Running
    /\ LET result == TryFromNameInternal(name, ignoreCase) IN
       last' = Call("FromName", name, 0, ignoreCase, result # <<>>, result, <<>>,
                    IF result = <<>> THEN "SmartEnumNotFoundException" ELSE "none")
    /\ UNCHANGED <<typeVars, registry, definitionsValidated, listInitFlag, builder>>

\* SmartEnum<TEnum>::TryFromValue
SmartEnumTryFromValue(value) ==
    /\ kind = "SmartEnum"
    /\ Running
    /\ LET outResult == TryFromValueInternal(value) IN
       last' = Call("TryFromValue", <<>>, value, FALSE,
                    outResult # <<>>, outResult, <<>>, "none")
    /\ UNCHANGED <<typeVars, registry, definitionsValidated, listInitFlag, builder>>

\* SmartEnum<TEnum>::FromValue
SmartEnumFromValue(value) ==
    /\ kind = "SmartEnum"
    /\ Running
    /\ LET result == TryFromValueInternal(value) IN
       last' = Call("FromValue", <<>>, value, FALSE, result # <<>>, result, <<>>,
                    IF result = <<>> THEN "SmartEnumNotFoundException" ELSE "none")
    /\ UNCHANGED <<typeVars, registry, definitionsValidated, listInitFlag, builder>>

\* The results std::sort may leave for the set S of pointers under the
\* comparator a->Name() < b->Name().
RECURSIVE SortedByName(_)
SortedByName(S) ==
    IF S = {} THEN { <<>> }
    ELSE UNION { { <<x>> \o t : t \in SortedByName(S \ {x}) } :
                 x \in { y \in S : \A z \in S : ~StrLess(z.name, y.name) } }

\* SmartEnum<TEnum>::List.  unnamed/part_004 returns instances();
\* include/SmartEnum.hpp sorts instances() by name in place the first time it
\* is called (std::call_once), reading every pointer of instances().
SmartEnumList ==
    /\ kind = "SmartEnum"
    /\ Running
    /\ IF variant = "src" \/ listInitFlag
       THEN /\ UNCHANGED <<instances, listInitFlag, builder>>
            /\ last' = Call("List", <<>>, 0, FALSE, TRUE, instances, <<>>, "none")
       ELSE IF \E i \in 1..Len(instances) : ~instances[i].live
       THEN /\ UNCHANGED instances
            /\ listInitFlag' = TRUE
            /\ last' = Call("List", <<>>, 0, FALSE, FALSE, <<>>, <<>>, Undefined)
       ELSE \E list \in SortedByName({ instances[i] : i \in 1..Len(instances) }) :
            /\ instances' = list
            /\ listInitFlag' = TRUE
            /\ last' = Call("List", <<>>, 0, FALSE, TRUE, list, <<>>, "none")
    /\ UNCHANGED <<typeVars, nameMap, nameMapIgnoreCase, valueMap,
                   definitionsValidated, builder>>

-----------------------------------------------------------------------------
(* Flag-definition validation *)

\* `delete p` as the comments beside it expect it to behave.
DeleteNullPointerThrowsAsCommented == TRUE

\* `delete p` with p == nullptr inside the try blocks of
\* SmartFlagEnum.hpp: deleting a null pointer has no effect, so the catch
\* block that holds the throw statement is never entered.
DeleteNullPointerThrows == FALSE

\* SmartFlagEnum::isPowerOfTwo, src/SmartFlagEnum.hpp
isPowerOfTwo(v) == v > 0 /\ BitAnd(v, v - 1) = 0

\* SmartFlagEnum::isPowerOfTwo of the inlined header: the value is converted
\* to unsigned long long first; a negative int becomes a pattern with the
\* upper 33 bits set, which is no power of two.
isPowerOfTwoInline(v) == v > 0 /\ BitAnd(v, v - 1) = 0

Dangling(insts) == \E i \in 1..Len(insts) : ~insts[i].live

\* The results std::sort may leave for the set S of pointers: the order of
\* elements the comparator holds equivalent is unspecified.
RECURSIVE SortedDescending(_)
SortedDescending(S) ==
    IF S = {} THEN { <<>> }
    ELSE UNION { { <<x>> \o t : t \in SortedDescending(S \ {x}) } :
                 x \in { y \in S : \A z \in S : z.value <= y.value } }

RECURSIVE SortedAscending(_)
SortedAscending(S) ==
    IF S = {} THEN { <<>> }
    ELSE UNION { { <<x>> \o t : t \in SortedAscending(S \ {x}) } :
                 x \in { y \in S : \A z \in S : y.value <= z.value } }

Range(f) == { f[i] : i \in DOMAIN f }

Reverse(q) == [i \in 1..Len(q) |-> q[Len(q) + 1 - i]]

EnforceResult(insts, validated, exc, msg) ==
    [insts |-> insts, validated |-> validated, exc |-> exc, msg |-> msg]

\* SmartFlagEnum::enforceFlagDefinitions, src/SmartFlagEnum.hpp: the loop
\* stops at the first value that is no power of two; whether it stops by the
\* throw or by the break is decided by `delete p`.
EnforceSrc(insts, validated) ==
    IF validated THEN { EnforceResult(insts, TRUE, "none", <<"", 0>>) }
    ELSE IF \E i \in 1..Len(insts) : ~isPowerOfTwo(insts[i].value)
    THEN LET i == CHOOSE k \in 1..Len(insts) :
                      /\ ~isPowerOfTwo(insts[k].value)
                      /\ \A j \in 1..(k - 1) : isPowerOfTwo(insts[j].value)
         IN IF DeleteNullPointerThrows
            THEN { EnforceResult(insts, FALSE, "SmartFlagEnumNotPowerOfTwoException",
                                 <<"is not a power of two", insts[i].value>>) }
            ELSE { EnforceResult(insts, TRUE, "none", <<"", 0>>) }
    ELSE { EnforceResult(insts, TRUE, "none", <<"", 0>>) }

\* The power-of-two values of the sorted instances, in their order
\* (baseFlags), the sentinels 0 and -1 left out.
BaseFlags(sorted) ==
    LET keep(e) == e.value # 0 /\ e.value # -1 /\ isPowerOfTwoInline(e.value)
        kept == SelectSeq(sorted, keep)
    IN [i \in 1..Len(kept) |-> kept[i].value]

\* The loop over baseFlags: the value of `expected` at the first flag that
\* differs from it, 0 when every flag is the expected one.
RECURSIVE FirstMissing(_, _, _)
FirstMissing(baseFlags, i, expected) ==
    IF i > Len(baseFlags) THEN 0
    ELSE IF baseFlags[i] # expected THEN expected
    ELSE FirstMissing(baseFlags, i + 1, IF expected > 0 THEN 2 * expected ELSE expected)

\* The checks of the inlined enforceFlagDefinitions on the sorted instances.
ValidateSorted(sorted, unsafe) ==
    LET bad(e) == e.value # 0 /\ e.value # -1 /\ ~isPowerOfTwoInline(e.value)
        offenders == SelectSeq(sorted, bad)
        missing == FirstMissing(BaseFlags(sorted), 1, 1)
    IN IF offenders # <<>> /\ ~unsafe
       THEN EnforceResult(sorted, FALSE, "SmartFlagEnumNotPowerOfTwoException",
                          <<"is not a power of two", offenders[1].value>>)
       ELSE IF missing # 0 /\ ~unsafe
       THEN EnforceResult(sorted, FALSE, "SmartFlagEnumNotPowerOfTwoException",
                          <<"Missing power-of-two flag value", missing>>)
       ELSE EnforceResult(sorted, TRUE, "none", <<"", 0>>)

\* EnforceInline without the test of definitionsValidated(): the sort and
\* the checks run on every call.
EnforceInlineRerun(insts, validated, unsafe) ==
    IF Dangling(insts)
    THEN { EnforceResult(insts, FALSE, Undefined, <<"", 0>>) }
    ELSE { ValidateSorted(sorted, unsafe) : sorted \in SortedAscending(Range(insts)) }

\* SmartFlagEnum::enforceFlagDefinitions of the inlined header
\* (examples/polymorphic_smart_enum.cpp): instances() is sorted by value in
\* place, then checked.  The sort reads every pointer of instances().
EnforceInline(insts, validated, unsafe) ==
    IF validated THEN { EnforceResult(insts, TRUE, "none", <<"", 0>>) }
    ELSE IF Dangling(insts)
    THEN { EnforceResult(insts, FALSE, Undefined, <<"", 0>>) }
    ELSE { ValidateSorted(sorted, unsafe) : sorted \in SortedAscending(Range(insts)) }

\* enforceFlagDefinitions() of the compiled variant, in the current state
Enforce ==
    IF variant = "src" THEN EnforceSrc(instances, definitionsValidated)
    ELSE EnforceInline(instances, definitionsValidated, allowUnsafe)

-----------------------------------------------------------------------------
(* Flag decomposition *)

RECURSIVE OrValues(_, _)
OrValues(insts, i) ==
    IF i > Len(insts) THEN 0 ELSE BitOr(insts[i].value, OrValues(insts, i + 1))

\* SmartFlagEnum::fitsInDefinedFlags, src/SmartFlagEnum.hpp
fitsInDefinedFlags(insts, input) ==
    BitAnd(input, BitNot(OrValues(insts, 1))) = 0

\* SmartFlagEnum::fitsInDefinedFlags of the inlined header: the mask below
\* twice the largest power-of-two flag.  A negative input converts to an
\* unsigned long long with bits above every mask.
fitsInDefinedFlagsInline(insts, input) ==
    LET flags == { insts[i].value : i \in 1..Len(insts) }
        pows == { f \in flags : f # 0 /\ f # -1 /\ isPowerOfTwoInline(f) }
        maxFlag == IF pows = {} THEN 0 ELSE CHOOSE m \in pows : \A f \in pows : f <= m
    IN IF maxFlag = 0 THEN TRUE
       ELSE input >= 0 /\ BitAnd(input, BitNot(2 * maxFlag - 1)) = 0

TryResult(ok, out, exc) == [ok |-> ok, out |-> out, exc |-> exc]

\* The loop of TryFromValue over sortedFlags from position i on:
\* <<remainingValue, outResult>> when the loop is left.
RECURSIVE Greedy(_, _, _, _)
Greedy(sortedFlags, i, remainingValue, outResult) ==
    IF i > Len(sortedFlags) THEN <<remainingValue, outResult>>
    ELSE LET flagValue == sortedFlags[i].value
             hit == BitAnd(remainingValue, flagValue) = flagValue
             rem == IF hit THEN BitAnd(remainingValue, BitNot(flagValue))
                    ELSE remainingValue
             out == IF hit THEN Append(outResult, sortedFlags[i]) ELSE outResult
         IN IF rem = 0 THEN <<rem, out>>
            ELSE Greedy(sortedFlags, i + 1, rem, out)

\* TryFromValueSrc with the test for a negative value moved before the
\* exact match.
TryFromValueSrcNegativeFirst(insts, vmap, value) ==
    IF value < 0 THEN { TryResult(FALSE, <<>>, "none") }
    ELSE IF Has(vmap, value) THEN { TryResult(TRUE, <<vmap[value]>>, "none") }
    ELSE IF fitsInDefinedFlags(insts, value)
    THEN { LET g == Greedy(sortedFlags, 1, value, <<>>)
           IN TryResult(g[1] = 0, g[2], "none") :
             sortedFlags \in SortedDescending(Range(insts)) }
    ELSE { TryResult(FALSE, <<>>, "none") }

\* TryFromValueSrc without the coverage check and the remainder test: it
\* succeeds when some flag matched.
TryFromValueSrcNoCoverage(insts, vmap, value) ==
    IF Has(vmap, value) THEN { TryResult(TRUE, <<vmap[value]>>, "none") }
    ELSE IF value < 0 THEN { TryResult(FALSE, <<>>, "none") }
    ELSE { LET g == Greedy(sortedFlags, 1, value, <<>>)
           IN TryResult(g[2] # <<>>, g[2], "none") :
             sortedFlags \in SortedDescending(Range(insts)) }

\* TryFromValueSrc without the std::sort: the loop visits the flags in the
\* order of instances().
TryFromValueSrcUnsorted(insts, vmap, value) ==
    IF Has(vmap, value) THEN { TryResult(TRUE, <<vmap[value]>>, "none") }
    ELSE IF value < 0 THEN { TryResult(FALSE, <<>>, "none") }
    ELSE IF fitsInDefinedFlags(insts, value)
    THEN { LET g == Greedy(insts, 1, value, <<>>)
           IN TryResult(g[1] = 0, g[2], "none") }
    ELSE { TryResult(FALSE, <<>>, "none") }

\* SmartFlagEnum::TryFromValue, src/SmartFlagEnum.hpp, after
\* enforceFlagDefinitions() has returned: one result per order std::sort may
\* produce.
TryFromValueSrc(insts, vmap, value) ==
    IF Has(vmap, value) THEN { TryResult(TRUE, <<vmap[value]>>, "none") }
    ELSE IF value < 0
    THEN IF DeleteNullPointerThrows
         THEN { TryResult(FALSE, <<>>, "NegativeFlagValueNotAllowedException") }
         ELSE { TryResult(FALSE, <<>>, "none") }
    ELSE IF fitsInDefinedFlags(insts, value)
    THEN { LET g == Greedy(sortedFlags, 1, value, <<>>)
           IN TryResult(g[1] = 0, g[2], "none") :
             sortedFlags \in SortedDescending(Range(insts)) }
    ELSE { TryResult(FALSE, <<>>, "none") }

\* SmartFlagEnum::TryFromValue of the inlined header, after
\* enforceFlagDefinitions() has returned.
TryFromValueInline(insts, vmap, value, allowNeg) ==
    LET nonZero(e) == e.value # 0
        member(e) == /\ e.value # 0 /\ e.value # -1
                     /\ isPowerOfTwoInline(e.value)
                     /\ BitAnd(value, e.value) = e.value
    IN IF value < 0 /\ value # -1 /\ ~allowNeg THEN TryResult(FALSE, <<>>, "none")
       ELSE IF Has(vmap, value) THEN TryResult(TRUE, <<vmap[value]>>, "none")
       ELSE IF Dangling(insts) THEN TryResult(FALSE, <<>>, Undefined)
       ELSE IF value = -1
       THEN TryResult(SelectSeq(insts, nonZero) # <<>>, SelectSeq(insts, nonZero), "none")
       ELSE IF ~fitsInDefinedFlagsInline(insts, value) THEN TryResult(FALSE, <<>>, "none")
       ELSE TryResult(SelectSeq(insts, member) # <<>>, SelectSeq(insts, member), "none")

\* What TryFromValue(value) can do in the current state: the instances() and
\* definitionsValidated() it leaves, and its result.
TryFromValueOutcomes(value) ==
    UNION { IF e.exc # "none"
            THEN { [insts |-> e.insts, validated |-> e.validated, ok |-> FALSE,
                    out |-> <<>>, exc |-> e.exc, msg |-> e.msg] }
            ELSE { [insts |-> e.insts, validated |-> e.validated, ok |-> r.ok,
                    out |-> r.out, exc |-> r.exc, msg |-> e.msg] :
                   r \in IF variant = "src"
                         THEN TryFromValueSrc(e.insts, valueMap, value)
                         ELSE { TryFromValueInline(e.insts, valueMap, value,
                                                   allowNegative) } }
          : e \in Enforce }

\* SmartFlagEnum<TEnum>::List
FlagList ==
    /\ kind = "SmartFlagEnum"
    /\ Running
    /\ \E e \in Enforce :
          /\ instances' = e.insts
          /\ definitionsValidated' = e.validated
          /\ last' = [Call("List", <<>>, 0, FALSE, e.exc = "none",
                           IF e.exc = "none" THEN e.insts ELSE <<>>, <<>>, e.exc)
                      EXCEPT !.msg = e.msg]
    /\ UNCHANGED <<typeVars, nameMap, nameMapIgnoreCase, valueMap, listInitFlag, builder>>

\* SmartFlagEnum<TEnum>::TryFromValue
FlagTryFromValue(value) ==
    /\ kind = "SmartFlagEnum"
    /\ Running
    /\ \E o \in TryFromValueOutcomes(value) :
          /\ instances' = o.insts
          /\ definitionsValidated' = o.validated
          /\ last' = [Call("TryFromValue", <<>>, value, FALSE, o.ok, o.out, <<>>, o.exc)
                      EXCEPT !.msg = o.msg]
    /\ UNCHANGED <<typeVars, nameMap, nameMapIgnoreCase, valueMap, listInitFlag, builder>>

\* FromValue returning its empty result instead of throwing.
NoException == "none"

\* The exception FromValue throws when TryFromValue returns false:
\* src/SmartFlagEnum.hpp line 220, inlined header line 257.
FromValueException ==
    IF variant = "src" THEN "InvalidFlagEnumValueParseException"
    ELSE "SmartEnumNotFoundException"

\* SmartFlagEnum<TEnum>::FromValue
FlagFromValue(value) ==
    /\ kind = "SmartFlagEnum"
    /\ Running
    /\ \E o \in TryFromValueOutcomes(value) :
          /\ instances' = o.insts
          /\ definitionsValidated' = o.validated
          /\ last' = [Call("FromValue", <<>>, value, FALSE, o.ok,
                           IF o.ok THEN o.out ELSE <<>>, <<>>,
                           IF o.exc # "none" THEN o.exc
                           ELSE IF o.ok THEN "none" ELSE FromValueException)
                      EXCEPT !.msg = o.msg]
    /\ UNCHANGED <<typeVars, nameMap, nameMapIgnoreCase, valueMap, listInitFlag, builder>>

-----------------------------------------------------------------------------
(* Flag names *)

\* SmartFlagEnum::findByName
findByName(name) == Found(nameMap, name)

\* SmartFlagEnum::findByNameCaseInsensitive
findByNameCaseInsensitive(name) == Found(nameMapIgnoreCase, ToLower(name))

\* The loop of TryFromName over the parts from position i on: every part is
\* trimmed, an empty one is skipped, the first one that is not found ends the
\* loop with outResult as it is.
RECURSIVE ParseNames(_, _, _, _, _)
ParseNames(parts, i, ignoreCase, outResult, ws) ==
    IF i > Len(parts) THEN TryResult(TRUE, outResult, "none")
    ELSE LET part == Trim(parts[i], ws)
             foundFlag == IF ignoreCase THEN findByNameCaseInsensitive(part)
                          ELSE findByName(part)
         IN IF part = <<>>
            THEN ParseNames(parts, i + 1, ignoreCase, outResult, ws)
            ELSE IF foundFlag = <<>> THEN TryResult(FALSE, outResult, "none")
            ELSE ParseNames(parts, i + 1, ignoreCase, outResult \o foundFlag, ws)

\* SmartFlagEnum::TryFromName, src/SmartFlagEnum.hpp
TryFromNameSrc(names, ignoreCase) ==
    IF names = <<>> THEN TryResult(TRUE, <<>>, "none")
    ELSE ParseNames(Split(names), 1, ignoreCase, <<>>, BlankChars)

\* SmartFlagEnum::TryFromName of the inlined header, after
\* enforceFlagDefinitions() has returned: a failure and an empty result both
\* clear outResult and return false.
TryFromNameInline(names, ignoreCase) ==
    LET r == ParseNames(Split(names), 1, ignoreCase, <<>>, IsSpaceChars)
    IN IF ~r.ok \/ r.out = <<>> THEN TryResult(FALSE, <<>>, "none") ELSE r

\* What TryFromName(names, ignoreCase) can do in the current state.
\* src/SmartFlagEnum.hpp does not call enforceFlagDefinitions(); the inlined
\* header returns false for an empty string before it calls it.
TryFromNameOutcomes(names, ignoreCase) ==
    IF variant = "src"
    THEN LET r == TryFromNameSrc(names, ignoreCase)
         IN { [insts |-> instances, validated |-> definitionsValidated,
               ok |-> r.ok, out |-> r.out, exc |-> "none", msg |-> <<"", 0>>] }
    ELSE IF names = <<>>
    THEN { [insts |-> instances, validated |-> definitionsValidated,
            ok |-> FALSE, out |-> <<>>, exc |-> "none", msg |-> <<"", 0>>] }
    ELSE { IF e.exc # "none"
           THEN [insts |-> e.insts, validated |-> e.validated, ok |-> FALSE,
                 out |-> <<>>, exc |-> e.exc, msg |-> e.msg]
           ELSE LET r == TryFromNameInline(names, ignoreCase)
                IN [insts |-> e.insts, validated |-> e.validated, ok |-> r.ok,
                    out |-> r.out, exc |-> "none", msg |-> e.msg]
         : e \in Enforce }

\* SmartFlagEnum<TEnum>::TryFromName
FlagTryFromName(names, ignoreCase) ==
    /\ kind = "SmartFlagEnum"
    /\ Running
    /\ \E o \in TryFromNameOutcomes(names, ignoreCase) :
          /\ instances' = o.insts
          /\ definitionsValidated' = o.validated
          /\ last' = [Call("TryFromName", names, 0, ignoreCase, o.ok, o.out, <<>>, o.exc)
                      EXCEPT !.msg = o.msg]
    /\ UNCHANGED <<typeVars, nameMap, nameMapIgnoreCase, valueMap, listInitFlag, builder>>

\* The exception FromName throws when TryFromName returns false:
\* src/SmartFlagEnum.hpp line 173, inlined header line 207.
FromNameException ==
    IF variant = "src" THEN "InvalidFlagEnumValueParseException"
    ELSE "SmartEnumNotFoundException"

\* SmartFlagEnum<TEnum>::FromName
FlagFromName(names, ignoreCase) ==
    /\ kind = "SmartFlagEnum"
    /\ Running
    /\ \E o \in TryFromNameOutcomes(names, ignoreCase) :
          /\ instances' = o.insts
          /\ definitionsValidated' = o.validated
          /\ last' = [Call("FromName", names, 0, ignoreCase, o.ok,
                           IF o.ok THEN o.out ELSE <<>>, <<>>,
                           IF o.exc # "none" THEN o.exc
                           ELSE IF o.ok THEN "none" ELSE FromNameException)
                      EXCEPT !.msg = o.msg]
    /\ UNCHANGED <<typeVars, nameMap, nameMapIgnoreCase, valueMap, listInitFlag, builder>>

-----------------------------------------------------------------------------
(* Flag strings *)

\* The names of flags joined by a comma alone.
RECURSIVE JoinNamesNoSpace(_, _)
JoinNamesNoSpace(flags, i) ==
    IF i > Len(flags) THEN <<>>
    ELSE (IF i > 1 THEN <<",">> ELSE <<>>) \o flags[i].name
             \o JoinNamesNoSpace(flags, i + 1)

\* The loop of TryFromValueToString from position i on: ", " before every
\* name but the first.
RECURSIVE JoinNames(_, _)
JoinNames(flags, i) ==
    IF i > Len(flags) THEN <<>>
    ELSE (IF i > 1 THEN <<",", " ">> ELSE <<>>) \o flags[i].name
             \o JoinNames(flags, i + 1)

\* The loop of the inlined header: ", " after every name but the last.
RECURSIVE JoinNamesInline(_, _)
JoinNamesInline(flags, i) ==
    IF i > Len(flags) THEN <<>>
    ELSE flags[i].name \o (IF i < Len(flags) THEN <<",", " ">> ELSE <<>>)
             \o JoinNamesInline(flags, i + 1)

\* The string built from the flags TryFromValue produced.
FlagsToString(flags) ==
    IF variant = "src" THEN JoinNames(flags, 1) ELSE JoinNamesInline(flags, 1)

\* SmartFlagEnum<TEnum>::TryFromValueToString (outStr is passed in empty)
FlagTryFromValueToString(value) ==
    /\ kind = "SmartFlagEnum"
    /\ Running
    /\ \E o \in TryFromValueOutcomes(value) :
          /\ instances' = o.insts
          /\ definitionsValidated' = o.validated
          /\ last' = [Call("TryFromValueToString", <<>>, value, FALSE, o.ok, <<>>,
                           IF o.ok THEN FlagsToString(o.out) ELSE <<>>, o.exc)
                      EXCEPT !.msg = o.msg]
    /\ UNCHANGED <<typeVars, nameMap, nameMapIgnoreCase, valueMap, listInitFlag, builder>>

\* The exception FromValueToString throws when the value has no flags:
\* src/SmartFlagEnum.hpp line 289; the inlined header lets the exception of
\* FromValue pass (line 310).
FromValueToStringException ==
    IF variant = "src" THEN "InvalidFlagEnumValueParseException"
    ELSE "SmartEnumNotFoundException"

\* SmartFlagEnum<TEnum>::FromValueToString
FlagFromValueToString(value) ==
    /\ kind = "SmartFlagEnum"
    /\ Running
    /\ \E o \in TryFromValueOutcomes(value) :
          /\ instances' = o.insts
          /\ definitionsValidated' = o.validated
          /\ last' = [Call("FromValueToString", <<>>, value, FALSE, o.ok, <<>>,
                           IF o.ok THEN FlagsToString(o.out) ELSE <<>>,
                           IF o.exc # "none" THEN o.exc
                           ELSE IF o.ok THEN "none" ELSE FromValueToStringException)
                      EXCEPT !.msg = o.msg]
    /\ UNCHANGED <<typeVars, nameMap, nameMapIgnoreCase, valueMap, listInitFlag, builder>>

\* The strings FromValueToString returns in the current state for the
\* values of values.
StringsOf(values) ==
    UNION { { FlagsToString(o.out) :
                o \in { x \in TryFromValueOutcomes(v) : x.ok /\ x.exc = "none" } }
            : v \in values }

Next ==
    \/ \E a \in CtorArgs(instances) : SmartEnumCtor(a[1], a[2])
    \/ \E a \in CtorArgs(instances) : SmartFlagEnumCtor(a[1], a[2])
    \/ \E n \in NameArgs(instances), ic \in BOOLEAN : SmartEnumTryFromName(n, ic)
    \/ \E n \in NameArgs(instances), ic \in BOOLEAN : SmartEnumFromName(n, ic)
    \/ \E v \in ValueArgs(instances) : SmartEnumTryFromValue(v)
    \/ \E v \in ValueArgs(instances) : SmartEnumFromValue(v)
    \/ FlagList
    \/ \E v \in ValueArgs(instances) : FlagTryFromValue(v)
    \/ \E v \in ValueArgs(instances) : FlagFromValue(v)
    \/ SmartEnumList
    \/ \E a \in CsvArgs : FlagTryFromName(a[1], a[2])
    \/ \E a \in CsvArgs \cup (StringsOf(StringValues) \X {FALSE}) :
           FlagFromName(a[1], a[2])
    \/ \E v \in StringValues : FlagTryFromValueToString(v)
    \/ \E v \in StringValues : FlagFromValueToString(v)

Spec == Init /\ [][Next]_vars

-----------------------------------------------------------------------------
(* SmartEnumSwitch: the fluent chain SwitchOn(v).When(c).Then(a)...Default(d) *)

\* A chain is followed up to this many calls after SwitchOn.
MaxCalls == 7

\* The values of the instances a chain is written with (TestEnum One, Two,
\* Three); operator== of two instances compares their values.
SwitchValues == { 1, 2, 3 }

\* The actions handed to Then are numbered in the order of the Then calls;
\* this is the action handed to Default.
DefaultAction == 0

\* The number of Then calls of a chain.
ThenCount(calls) == Len(SelectSeq(calls, LAMBDA c : c[1] = "Then"))

\* SwitchOn(enumValue): SmartEnumSwitchBuilder(enumValue)
SwitchOn(enumValue) ==
    /\ builder.stage = "none"
    /\ builder' = [stage |-> "built", value_ |-> enumValue, handled_ |-> FALSE,
                   lastMatch_ |-> FALSE, calls |-> <<>>, ran |-> <<>>]
    /\ UNCHANGED <<typeVars, registry, definitionsValidated, listInitFlag, last>>

\* SmartEnumSwitchBuilder::When
When(candidate) ==
    /\ builder.stage = "built"
    /\ Len(builder.calls) < MaxCalls
    /\ builder' = [builder EXCEPT
                     !.lastMatch_ = (~builder.handled_ /\ builder.value_ = candidate),
                     !.calls = Append(@, <<"When", candidate>>)]
    /\ UNCHANGED <<typeVars, registry, definitionsValidated, listInitFlag, last>>

\* Default running its action whatever has been handled.
DefaultRunsAlways(b) == TRUE

\* The test of Then and the test of Default.
ThenRuns(b) == ~b.handled_ /\ b.lastMatch_

DefaultRuns(b) == ~b.handled_

\* SmartEnumSwitchBuilder::Then
Then(action) ==
    /\ builder.stage = "built"
    /\ Len(builder.calls) < MaxCalls
    /\ builder' = [builder EXCEPT
                     !.ran = IF ThenRuns(builder) THEN Append(@, action) ELSE @,
                     !.handled_ = IF ThenRuns(builder) THEN TRUE ELSE @,
                     !.lastMatch_ = FALSE,
                     !.calls = Append(@, <<"Then", action>>)]
    /\ UNCHANGED <<typeVars, registry, definitionsValidated, listInitFlag, last>>

\* SmartEnumSwitchBuilder::Default
Default(action) ==
    /\ builder.stage = "built"
    /\ Len(builder.calls) < MaxCalls
    /\ builder' = [builder EXCEPT
                     !.stage = "done",
                     !.ran = IF DefaultRuns(builder) THEN Append(@, action) ELSE @,
                     !.calls = Append(@, <<"Default", action>>)]
    /\ UNCHANGED <<typeVars, registry, definitionsValidated, listInitFlag, last>>

\* A chain is written on a SmartEnum type; the registry plays no part in it.
SwitchInit == Init /\ variant = "src" /\ kind = "SmartEnum"

SwitchNext ==
    \/ \E enumValue \in SwitchValues : SwitchOn(enumValue)
    \/ \E candidate \in SwitchValues : When(candidate)
    \/ Then(ThenCount(builder.calls) + 1)
    \/ Default(DefaultAction)

SwitchSpec == SwitchInit /\ [][SwitchNext]_vars

-----------------------------------------------------------------------------
(* Properties *)

\* The instances whose construction succeeded.
Registered == { instances[i] : i \in { k \in 1..Len(instances) : instances[k].live } }

\* x was registered before y (ids are given in construction order).
Before(x, y) == x.id < y.id

FlagValueQueries == { "FromValue", "TryFromValue" }

FlagQueries == { "List", "FromValue", "TryFromValue" }

\* The error kinds of the specification, as the exception classes thrown.
InvalidNameError == "std::invalid_argument"

DuplicateNameError == "std::runtime_error"

NotFoundError == { "SmartEnumNotFoundException", "InvalidFlagEnumValueParseException" }

NegativeValueNotAllowedError == "NegativeFlagValueNotAllowedException"

NotPowerOfTwoError == "SmartFlagEnumNotPowerOfTwoException"

\* The single bits a modelled value can have set.
Bits == { 1, 2, 4, 8, 16, 32 }

\* C1: for every registered instance x of a SmartEnum type, FromName(x.Name())
\* with exact case returns x itself, whatever else has been registered.
C1_FromNameReturnsInstance ==
    (kind = "SmartEnum" /\ last.op = "FromName" /\ ~last.ignoreCase) =>
        \A x \in Registered :
            x.name = last.name => (last.exc = "none" /\ last.out = <<x>>)

\* C1 witness: FromName has returned an instance that was registered after
\* another one with the same value and a name differing only in case.
C1_Witness ==
    /\ kind = "SmartEnum" /\ last.op = "FromName" /\ ~last.ignoreCase
    /\ last.exc = "none"
    /\ \E x, y \in Registered :
          /\ Before(y, x) /\ last.out = <<x>> /\ x.name = last.name
          /\ y.value = x.value /\ y.name # x.name
          /\ ToLower(y.name) = ToLower(x.name)

\* C2 as stated: for every registered instance x of a SmartEnum type,
\* FromValue(x.Value()) returns x itself.
C2_FromValueReturnsInstance ==
    (kind = "SmartEnum" /\ last.op = "FromValue") =>
        \A x \in Registered :
            x.value = last.value => (last.exc = "none" /\ last.out = <<x>>)

\* C2 amended: for every registered instance x of a SmartEnum type,
\* FromValue(x.Value()) succeeds and returns the first-registered instance
\* whose value equals x.Value(); that is x itself when no instance registered
\* before x has the same value.
C2_FromValueReturnsFirstRegistrant ==
    (kind = "SmartEnum" /\ last.op = "FromValue") =>
        \A x \in Registered :
            x.value = last.value =>
                /\ last.exc = "none"
                /\ Len(last.out) = 1
                /\ last.out[1] \in Registered
                /\ last.out[1].value = x.value
                /\ \A y \in Registered : y.value = x.value => ~Before(y, last.out[1])
                /\ (\A y \in Registered : y.value = x.value => ~Before(y, x))
                       => last.out = <<x>>

\* C2 witness: FromValue has answered for a value that two registered
\* instances share.
C2_Witness ==
    /\ kind = "SmartEnum" /\ last.op = "FromValue" /\ last.exc = "none"
    /\ \E x, y \in Registered :
          /\ x # y /\ x.value = last.value /\ y.value = last.value
          /\ last.out = <<x>>

\* C3: a construction with an empty name fails with InvalidNameError, one
\* with an already registered exact name fails with DuplicateNameError, and a
\* failed construction leaves the instance list and the three indices as
\* they were.
C3_FailedConstructionLeavesRegistry ==
    [][ (kind = "SmartEnum" /\ last'.op = "ctor") =>
            /\ (last'.name = <<>>) => (last'.exc = InvalidNameError)
            /\ (last'.name # <<>> /\ Has(nameMap, last'.name))
                   => (last'.exc = DuplicateNameError)
            /\ (last'.exc # "none") => (registry' = registry) ]_vars

\* C4: flag FromValue(v) returns the one-element result [x] with x the
\* instance indexed under v whenever some registered instance has value v,
\* also for a negative v on a type without allowNegativeInput
\* (src/SmartFlagEnum.hpp).
C4_ExactMatchWins ==
    (variant = "src" /\ kind = "SmartFlagEnum" /\ last.op \in FlagValueQueries) =>
        ((\E x \in Registered : x.value = last.value) =>
            /\ last.exc = "none" /\ last.ok
            /\ Len(last.out) = 1
            /\ last.out[1] \in Registered
            /\ last.out[1].value = last.value)

\* C4 witness: on the type Flags of the tests, declared without
\* allowNegativeInput, FromValue(-1) has returned [All], and 3 is the value
\* of AB although B and A are registered.
C4_Witness ==
    /\ variant = "src" /\ kind = "SmartFlagEnum" /\ ~allowNegative
    /\ Declared(instances) = FlagsDecl
    /\ last.op = "FromValue" /\ last.value = -1 /\ last.exc = "none"
    /\ Len(last.out) = 1 /\ last.out[1].name = <<"A","l","l">>
    /\ valueMap[3].name = <<"A","B">>

\* C4 witness of the combination: FromValue(3) has returned [AB] on Flags.
C4_WitnessCombination ==
    /\ variant = "src" /\ kind = "SmartFlagEnum"
    /\ Declared(instances) = FlagsDecl
    /\ last.op = "FromValue" /\ last.value = 3 /\ last.exc = "none"
    /\ Len(last.out) = 1 /\ last.out[1].name = <<"A","B">>

\* The values of a result list, in its order.
Values(out) == [i \in 1..Len(out) |-> out[i].value]

\* A flag value query that succeeded without an exact match and not by the
\* sentinel -1.
Decomposed ==
    /\ kind = "SmartFlagEnum" /\ last.op \in FlagValueQueries
    /\ last.exc = "none" /\ last.ok
    /\ ~Has(valueMap, last.value) /\ last.value # -1

\* C5: a result of flag FromValue produced by decomposition lists the
\* instances in strictly descending order of value; on the strict flags
\* {A=1, B=2, C=4}, FromValue(3) is [B, A].
C5_DecompositionDescending ==
    Decomposed =>
        /\ \A i, j \in 1..Len(last.out) :
               i < j => last.out[i].value > last.out[j].value
        /\ (Declared(instances) = StrictDecl /\ last.value = 3)
               => Values(last.out) = <<2, 1>>

\* C5 on src/SmartFlagEnum.hpp alone.
C5_DecompositionDescendingSrc == (variant = "src") => C5_DecompositionDescending

\* v has a set bit that no declared flag value has.
UncoveredBit(v) ==
    \E b \in Bits :
        /\ BitAnd(v, b) = b
        /\ \A i \in 1..Len(instances) : BitAnd(instances[i].value, b) = 0

C6_WitnessOptions ==
    /\ variant = "src" /\ kind = "SmartFlagEnum"
    /\ Declared(instances) = OptionsDecl
    /\ last.op = "TryFromValue" /\ last.value = 16 /\ ~last.ok

\* The declared values that are neither a sentinel nor a power of two.
NonPowerOfTwoDeclared ==
    { x \in Registered : x.value # 0 /\ x.value # -1 /\ ~isPowerOfTwo(x.value) }

\* C7: on a flag type without allowUnsafeValues that declares a non-sentinel
\* value that is no power of two, a flag query fails with NotPowerOfTwoError
\* (and no construction does).
C7_NotPowerOfTwoRejected ==
    (kind = "SmartFlagEnum" /\ ~allowUnsafe /\ NonPowerOfTwoDeclared # {}) =>
        /\ (last.op \in FlagQueries) => (last.exc = NotPowerOfTwoError)
        /\ (last.op = "ctor") => (last.exc # NotPowerOfTwoError)

\* The declared power-of-two values.
PowersDeclared == { x.value : x \in { y \in Registered : isPowerOfTwo(y.value) } }

\* The smallest power of two below the largest declared one that is not
\* declared, 0 when the declared ones are 1, 2, 4, ... without a gap.
MissingPower ==
    LET gaps == { b \in Bits : /\ b \notin PowersDeclared
                               /\ \E p \in PowersDeclared : p > b }
    IN IF gaps = {} THEN 0 ELSE CHOOSE b \in gaps : \A c \in gaps : b <= c

\* C8: on a flag type without allowUnsafeValues whose declared powers of two
\* have a gap, a flag query fails with MissingFlagError naming the first
\* missing value.
C8_MissingFlagRejected ==
    (/\ kind = "SmartFlagEnum" /\ ~allowUnsafe /\ NonPowerOfTwoDeclared = {}
     /\ MissingPower # 0 /\ last.op \in FlagQueries) =>
        /\ last.exc = NotPowerOfTwoError
        /\ last.msg = <<"Missing power-of-two flag value", MissingPower>>

\* C9: on a flag type with allowUnsafeValues no flag query fails validation,
\* whatever values are declared, and the type is validated afterwards; on
\* {Bit1=1, Bit3=4}, FromValue(5) returns exactly Bit3 and Bit1.
C9_UnsafeValuesAccepted ==
    (/\ kind = "SmartFlagEnum" /\ allowUnsafe /\ last.op \in FlagQueries
     /\ ~Dangling(instances)) =>
        /\ last.exc # NotPowerOfTwoError
        /\ definitionsValidated
        /\ (/\ Declared(instances) \in { SparseFlagsDecl, Reverse(SparseFlagsDecl) }
            /\ last.op = "FromValue" /\ last.value = 5)
               => /\ last.exc = "none"
                  /\ Len(last.out) = 2
                  /\ { last.out[1].name, last.out[2].name }
                         = { <<"B","i","t","1">>, <<"B","i","t","3">> }

\* C9 witness: FromValue(5) has been answered on {Bit1=1, Bit3=4}, a type
\* with a gap at 2.
C9_Witness ==
    /\ kind = "SmartFlagEnum" /\ allowUnsafe /\ variant = "src"
    /\ Declared(instances) = SparseFlagsDecl
    /\ last.op = "FromValue" /\ last.value = 5 /\ Len(last.out) = 2

\* C9 witness with a value that is no power of two: a flag query has returned
\* on a type that declares 3.
C9_WitnessNonPower ==
    /\ kind = "SmartFlagEnum" /\ allowUnsafe
    /\ NonPowerOfTwoDeclared # {}
    /\ last.op = "List" /\ last.exc = "none"

\* C10: on a flag type without allowNegativeInput, for a negative v that is
\* no registered value, FromValue(v) fails with NegativeValueNotAllowedError
\* and TryFromValue(v) returns false.
C10_NegativeRejected ==
    (/\ kind = "SmartFlagEnum" /\ ~allowNegative /\ last.op \in FlagValueQueries
     /\ last.value < 0 /\ ~Has(valueMap, last.value)) =>
        /\ (last.op = "FromValue") => (last.exc = NegativeValueNotAllowedError)
        /\ (last.op = "TryFromValue") => (~last.ok /\ last.exc = "none")

\* Every flag query, and every SmartEnum query.
AllFlagQueries ==
    { "List", "FromName", "TryFromName", "FromValue", "TryFromValue",
      "FromValueToString", "TryFromValueToString" }

SmartEnumQueries == { "List", "FromName", "TryFromName", "FromValue", "TryFromValue" }

TryForms == { "TryFromName", "TryFromValue", "TryFromValueToString" }

\* The last call ended in the validator (or in undefined behaviour) and so
\* never reached the lookup it was made for.
EndedInValidation == last.exc \in { NotPowerOfTwoError, Undefined }

\* C11: on a flag type with allowNegativeInput and no instance of value -1,
\* FromValue(-1) succeeds and returns every registered instance whose value
\* is not zero.
C11_AllOnesReturnsNonZero ==
    (/\ kind = "SmartFlagEnum" /\ allowNegative /\ last.op = "FromValue"
     /\ last.value = -1 /\ ~Has(valueMap, -1) /\ ~EndedInValidation) =>
        /\ last.exc = "none"
        /\ Range(last.out) = { x \in Registered : x.value # 0 }
        /\ Len(last.out) = Cardinality({ x \in Registered : x.value # 0 })

\* The union of the registered flag values covers every set bit of v.
CoveredByFlags(v) == BitAnd(v, BitNot(OrValues(instances, 1))) = 0

\* Taking the registered flags in descending order of value out of v leaves
\* no bit.
DecomposesByFlags(v) ==
    \E sortedFlags \in SortedDescending(Registered) :
        Greedy(sortedFlags, 1, v, <<>>)[1] = 0

\* C12: on a flag type with allowNegativeInput, a negative v other than -1
\* that is no registered value is not rejected for being negative: the query
\* succeeds when v is covered by the flags and decomposes into them.
C12_NegativeDecomposed ==
    (/\ kind = "SmartFlagEnum" /\ allowNegative /\ last.op \in FlagValueQueries
     /\ last.value < 0 /\ last.value # -1 /\ ~Has(valueMap, last.value)
     /\ ~EndedInValidation
     /\ CoveredByFlags(last.value) /\ DecomposesByFlags(last.value)) =>
        (last.ok /\ last.exc = "none")

\* The tokens of a comma-separated string: its parts between commas, blanks
\* trimmed, the empty ones left out.
Tokens(csv) ==
    LET parts == Split(csv)
        trimmed == [i \in 1..Len(parts) |-> Trim(parts[i], BlankChars)]
        nonEmpty(t) == t # <<>>
    IN SelectSeq(trimmed, nonEmpty)

\* The instance a token names, as a list of at most one element.
Resolve(token, ignoreCase) ==
    IF ignoreCase THEN Found(nameMapIgnoreCase, ToLower(token))
    ELSE Found(nameMap, token)

\* C13: flag FromName(csv, ignoreCase) returns the instances its non-empty
\* trimmed tokens resolve to, in token order; when a token resolves to no
\* instance the call fails with a parse error (TryFromName returns false);
\* an empty string succeeds with an empty result.
C13_FromNameParsesCsv ==
    (/\ kind = "SmartFlagEnum" /\ last.op \in { "FromName", "TryFromName" }
     /\ ~EndedInValidation) =>
        LET tokens == Tokens(last.name)
            resolved == \A i \in 1..Len(tokens) :
                            Resolve(tokens[i], last.ignoreCase) # <<>>
        IN /\ resolved =>
                /\ last.exc = "none" /\ last.ok
                /\ last.out = [i \in 1..Len(tokens) |->
                                   Resolve(tokens[i], last.ignoreCase)[1]]
           /\ ~resolved =>
                /\ ~last.ok
                /\ (last.op = "FromName") => (last.exc \in NotFoundError)
                /\ (last.op = "TryFromName") => (last.exc = "none")
           /\ (last.name = <<>>) => (last.ok /\ last.out = <<>>)

\* The names of a result list, in its order.
NamesOf(out) == [i \in 1..Len(out) |-> out[i].name]

\* The strings of a list joined by a comma and a space.
RECURSIVE CommaSpaceJoined(_)
CommaSpaceJoined(strings) ==
    IF strings = <<>> THEN <<>>
    ELSE IF Len(strings) = 1 THEN strings[1]
    ELSE strings[1] \o <<",", " ">> \o CommaSpaceJoined(Tail(strings))

\* The results FromValue(v) can return in the current state.
FromValueResults(v) ==
    { o.out : o \in { x \in TryFromValueOutcomes(v) : x.ok /\ x.exc = "none" } }

PlainNames ==
    \A x \in Registered :
        /\ \A i \in 1..Len(x.name) : x.name[i] # ","
        /\ x.name # <<>>
        /\ x.name[1] \notin BlankChars /\ x.name[Len(x.name)] \notin BlankChars

\* C15: for every value v on which FromValueToString(v) succeeds,
\* FromName(FromValueToString(v)) succeeds and the bitwise OR of the values
\* of the instances it returns is v, when the registered names hold no comma
\* and no leading or trailing blank (src/SmartFlagEnum.hpp).
C15_RoundTrip ==
    (/\ variant = "src" /\ kind = "SmartFlagEnum" /\ PlainNames
     /\ last.op = "FromName" /\ ~last.ignoreCase) =>
        \A v \in StringValues :
            (\E out \in FromValueResults(v) : FlagsToString(out) = last.name) =>
                /\ last.exc = "none"
                /\ OrValues(last.out, 1) = v

\* C15 witness: FromName("B, A") has returned instances whose values OR to 3
\* on the strict flags, "B, A" being FromValueToString(3).
C15_Witness ==
    /\ variant = "src" /\ kind = "SmartFlagEnum"
    /\ Declared(instances) = StrictDecl
    /\ last.op = "FromName" /\ last.name = <<"B", ",", " ", "A">>
    /\ last.exc = "none" /\ OrValues(last.out, 1) = 3
    /\ \E out \in FromValueResults(3) : FlagsToString(out) = last.name

\* What the Try form of the last call can return for the arguments of the
\* last call: the set of <<ok, out, str>>.
TryOutcomesOfLast ==
    IF kind = "SmartEnum"
    THEN LET r == IF last.op \in { "FromName", "TryFromName" }
                  THEN TryFromNameInternal(last.name, last.ignoreCase)
                  ELSE TryFromValueInternal(last.value)
         IN { << r # <<>>, r, <<>> >> }
    ELSE IF last.op \in { "FromName", "TryFromName" }
    THEN { << o.ok, o.out, <<>> >> :
             o \in { x \in TryFromNameOutcomes(last.name, last.ignoreCase) :
                       x.exc = "none" } }
    ELSE IF last.op \in FlagValueQueries
    THEN { << o.ok, o.out, <<>> >> :
             o \in { x \in TryFromValueOutcomes(last.value) : x.exc = "none" } }
    ELSE { << o.ok, <<>>, IF o.ok THEN FlagsToString(o.out) ELSE <<>> >> :
             o \in { x \in TryFromValueOutcomes(last.value) : x.exc = "none" } }

C17_ValidatedStaysValidated ==
    [][ (/\ kind = "SmartFlagEnum" /\ definitionsValidated
         /\ last'.op \in AllFlagQueries) =>
            /\ definitionsValidated'
            /\ instances' = instances
            /\ last'.exc # NotPowerOfTwoError ]_vars

\* C17 witness: a name query of src/SmartFlagEnum.hpp, which does not
\* validate itself, has answered on a type an earlier query validated.
C17_Witness ==
    /\ kind = "SmartFlagEnum" /\ variant = "src" /\ definitionsValidated
    /\ Registered # {}
    /\ last.op = "FromName" /\ last.exc = "none"

\* C17 witness of the inlined header: a value query has answered on a
\* validated type whose instances() holds two flags of the same value.
C17_WitnessInline ==
    /\ kind = "SmartFlagEnum" /\ variant = "include" /\ definitionsValidated
    /\ \E x, y \in Registered : x # y /\ x.value = y.value
    /\ last.op = "FromValue" /\ last.exc = "none"

\* C18: no flag query returns a result for a type whose definitions have not
\* passed validation: a query that has returned successfully leaves the type
\* validated.
C18_ValidatedBeforeResult ==
    (/\ kind = "SmartFlagEnum" /\ last.op \in AllFlagQueries
     /\ last.exc = "none" /\ last.ok) => definitionsValidated

\* C19: a registration on a validated flag type makes the type Unvalidated
\* again, so that the next flag query validates it.
C19_RegistrationInvalidates ==
    (kind = "SmartFlagEnum" /\ last.op = "ctor" /\ last.exc = "none") =>
        ~definitionsValidated

\* C20: a query on a type that is validated (a SmartEnum type needs no
\* validation) leaves the instance order, the three indices and the
\* validation state unchanged.
C20_QueriesAreReads ==
    [][ (/\ last'.op \in AllFlagQueries
         /\ last'.exc # Undefined
         /\ ((kind = "SmartFlagEnum") => definitionsValidated)) =>
            /\ registry' = registry
            /\ definitionsValidated' = definitionsValidated ]_vars

\* The successfully registered instances in the order of their registration.
InRegistrationOrder ==
    [k \in 1..Cardinality(Registered) |->
        CHOOSE x \in Registered :
            Cardinality({ y \in Registered : Before(y, x) }) = k - 1]

\* C21: List() returns exactly the successfully registered instances, each
\* once, in the order of their registration, on every call.
C21_ListInRegistrationOrder ==
    (last.op = "List" /\ last.exc = "none") => (last.out = InRegistrationOrder)

\* The first registrant among the registered instances that satisfy Match.
FirstRegistrant(Match(_)) ==
    CHOOSE x \in Registered :
        /\ Match(x)
        /\ \A y \in Registered : Match(y) => ~Before(y, x)

\* FromValue(v) and FromName(n, ignoreCase = true) have returned the first
\* registrant of the value and of the lower-cased name they were asked for.
FirstRegistrantAnswers ==
    /\ (/\ last.op = "FromValue"
        /\ \E x \in Registered : x.value = last.value) =>
           /\ last.exc = "none"
           /\ last.out = << FirstRegistrant(LAMBDA x : x.value = last.value) >>
    /\ (/\ last.op = "FromName" /\ last.ignoreCase
        /\ \E x \in Registered : ToLower(x.name) = ToLower(last.name)) =>
           /\ last.exc = "none"
           /\ last.out = << FirstRegistrant(
                               LAMBDA x : ToLower(x.name) = ToLower(last.name)) >>

\* C22: a registration whose exact name is new succeeds also when its value
\* or its lower-cased name is already indexed, and leaves the entries of the
\* value index and of the case-insensitive index as they were; FromValue(v)
\* and FromName(n, ignoreCase = true) return the first registrant (SmartEnum,
\* and SmartFlagEnum of src/SmartFlagEnum.hpp).
C22_FirstRegistrantWins ==
    [][ (kind = "SmartEnum" \/ variant = "src") =>
            /\ (/\ last'.op = "ctor" /\ last'.name # <<>>
                /\ ~Has(nameMap, last'.name)) =>
                   /\ last'.exc = "none"
                   /\ \A v \in DOMAIN valueMap :
                          Has(valueMap', v) /\ valueMap'[v] = valueMap[v]
                   /\ \A n \in DOMAIN nameMapIgnoreCase :
                          /\ Has(nameMapIgnoreCase', n)
                          /\ nameMapIgnoreCase'[n] = nameMapIgnoreCase[n]
            /\ FirstRegistrantAnswers' ]_vars

\* C22 witness: on a flag type of src/SmartFlagEnum.hpp on which "a" was
\* registered after "A", FromName("a", true) has returned A.
C22_Witness ==
    /\ kind = "SmartFlagEnum" /\ variant = "src"
    /\ last.op = "FromName" /\ last.ignoreCase /\ last.name = <<"a">>
    /\ last.exc = "none" /\ Len(last.out) = 1 /\ last.out[1].name = <<"A">>
    /\ \E y \in Registered : y.name = <<"a">> /\ Before(last.out[1], y)

\* C22 witness of the value index: a registration has succeeded with a value
\* that an earlier instance holds.
C22_WitnessValue ==
    /\ last.op = "ctor" /\ last.exc = "none"
    /\ \E x \in Registered :
          /\ x.value = last.value /\ Before(x, last.out[1])
          /\ valueMap[last.value] = x

\* C23: SmartEnum FromName(n, ignoreCase = true) returns a registered
\* instance whose name equals n up to letter case, and FromName(n) with
\* ignoreCase = false fails with NotFoundError when no instance has exactly
\* the name n.
C23_IgnoreCaseLookup ==
    (kind = "SmartEnum" /\ last.op = "FromName") =>
        /\ (/\ last.ignoreCase
            /\ \E x \in Registered : ToLower(x.name) = ToLower(last.name)) =>
               /\ last.exc = "none"
               /\ Len(last.out) = 1
               /\ last.out[1] \in Registered
               /\ ToLower(last.out[1].name) = ToLower(last.name)
        /\ (/\ ~last.ignoreCase
            /\ \A x \in Registered : x.name # last.name) =>
               (last.exc \in NotFoundError /\ last.out = <<>>)

\* C23 witness: FromName("a") has failed although "A" is registered.
C23_Witness ==
    /\ kind = "SmartEnum" /\ last.op = "FromName" /\ ~last.ignoreCase
    /\ last.name = <<"a">> /\ last.exc \in NotFoundError
    /\ \E x \in Registered : x.name = <<"A">>

\* C23 witness of the other half: FromName("a", true) has returned the
\* instance registered as "A".
C23_WitnessIgnoreCase ==
    /\ kind = "SmartEnum" /\ last.op = "FromName" /\ last.ignoreCase
    /\ last.name = <<"a">> /\ last.exc = "none"
    /\ Len(last.out) = 1 /\ last.out[1].name = <<"A">>

\* The chain written so far has the form When, Then, When, Then, ... with
\* Default, if it is there, in the place of a When.
WellFormedChain ==
    \A i \in 1..Len(builder.calls) :
        IF i % 2 = 0 THEN builder.calls[i][1] = "Then"
        ELSE \/ builder.calls[i][1] = "When"
             \/ (i = Len(builder.calls) /\ builder.calls[i][1] = "Default")

\* The numbers i of the When/Then pairs written so far whose candidate c_i
\* equals the value switched on.
MatchingCases ==
    { i \in 1..ThenCount(builder.calls) :
        builder.calls[2 * i - 1][2] = builder.value_ }

\* C24: in a chain SwitchOn(v).When(c1).Then(a1)...When(cn).Then(an).Default(d)
\* at most one action has run at any point: a_i for the smallest i with
\* v = c_i once Then(a_i) has been called, and d exactly when Default has
\* been called and no c_i equals v.
C24_ExactlyOneActionRuns ==
    (builder.stage # "none" /\ WellFormedChain) =>
        builder.ran =
            IF MatchingCases # {}
            THEN << CHOOSE i \in MatchingCases : \A j \in MatchingCases : i <= j >>
            ELSE IF builder.stage = "done" THEN << DefaultAction >>
            ELSE << >>

\* C24 witness: a finished chain with two cases that both equal v has run
\* the action of the first one only.
C24_Witness ==
    /\ builder.stage = "done" /\ WellFormedChain
    /\ Cardinality(MatchingCases) = 2
    /\ builder.ran = <<1>>

\* C24 witness of the fallback: a finished chain with two cases, none equal
\* to v, has run the default action.
C24_WitnessDefault ==
    /\ builder.stage = "done" /\ WellFormedChain
    /\ ThenCount(builder.calls) = 2 /\ MatchingCases = {}
    /\ builder.ran = << DefaultAction >>

\* C25: whenever the coverage check passes for a value that is no exact
\* match, the decomposition ends with remainder zero, that is, the query
\* succeeds (src/SmartFlagEnum.hpp).
C25_CoverageImpliesDecomposition ==
    (/\ variant = "src" /\ kind = "SmartFlagEnum" /\ last.op \in FlagValueQueries
     /\ ~Has(valueMap, last.value) /\ last.value >= 0
     /\ CoveredByFlags(last.value)) =>
        (last.ok /\ last.exc = "none")

\* The first five declarations of Flags: {None=0, A=1, B=2, C=4, AB=3}.
FlagsWithoutAll == SubSeq(FlagsDecl, 1, 5)

\* C26: a result produced by decomposition holds power-of-two flags only, no
\* sentinel and no declared combination; on {None=0, A=1, B=2, C=4, AB=3},
\* FromValue(7) is [C, B, A].
C26_OnlyPowerOfTwoFlags ==
    Decomposed =>
        /\ \A i \in 1..Len(last.out) : isPowerOfTwo(last.out[i].value)
        /\ (Range(Declared(instances)) = Range(FlagsWithoutAll) /\ last.value = 7)
               => Values(last.out) = <<4, 2, 1>>

\* C27: when flag TryFromValue(v) returns true, for a v other than -1
\* without exact match, the values of the returned instances OR to v, and in
\* a decomposition no two returned instances share a bit.
C27_ResultOrsToValue ==
    (/\ kind = "SmartFlagEnum" /\ last.op \in FlagValueQueries
     /\ last.ok /\ last.exc = "none"
     /\ ~(last.value = -1 /\ ~Has(valueMap, -1))) =>
        /\ OrValues(last.out, 1) = last.value
        /\ ~Has(valueMap, last.value) =>
               \A i, j \in 1..Len(last.out) :
                   i # j => BitAnd(last.out[i].value, last.out[j].value) = 0

\* C28: when flag TryFromName or flag TryFromValue returns false, the output
\* vector is empty.
C28_FalseLeavesOutputEmpty ==
    (/\ kind = "SmartFlagEnum" /\ last.op \in { "TryFromName", "TryFromValue" }
     /\ ~last.ok /\ last.exc = "none") =>
        last.out = <<>>

\* The value index registerInstance builds for the first i instances of
\* insts.
RECURSIVE ValueIndexOf(_, _)
ValueIndexOf(insts, i) ==
    IF i = 0 THEN EmptyMap ELSE IndexValue(ValueIndexOf(insts, i - 1), insts[i])

\* instances() after the same constructions made in the order p.
Reordered(p) ==
    [i \in 1..Len(instances) |-> [instances[p[i]] EXCEPT !.id = i]]

\* A result as the sequence of the <<name, value>> of its instances.
Canon(out) == [i \in 1..Len(out) |-> <<out[i].name, out[i].value>>]

\* What FromValue(v) can return on the registry insts: <<TRUE, result>>, or
\* <<FALSE, <<>> >> when it throws.
FromValueOn(insts, v) ==
    { IF r.ok THEN <<TRUE, Canon(r.out)>> ELSE <<FALSE, <<>> >> :
        r \in TryFromValueSrc(insts, ValueIndexOf(insts, Len(insts)), v) }

\* FromValue(v) returns on every reordering of the registry what the last
\* call returned.
SameOnEveryOrder ==
    \A p \in Permutations(1..Len(instances)) :
        FromValueOn(Reordered(p), last.value) =
            { IF last.ok THEN <<TRUE, Canon(last.out)>> ELSE <<FALSE, <<>> >> }

\* C29 as stated: two registries that hold the same (name, value) instances,
\* registered in different orders, return the same instance sequence from
\* FromValue(v) for every v (src/SmartFlagEnum.hpp).
C29_FromValueCanonical ==
    (variant = "src" /\ kind = "SmartFlagEnum" /\ last.op = "FromValue")
        => SameOnEveryOrder

\* C29 amended: the same, for registries whose instances have pairwise
\* distinct values.
C29_FromValueCanonicalDistinctValues ==
    (/\ variant = "src" /\ kind = "SmartFlagEnum" /\ last.op = "FromValue"
     /\ \A x, y \in Registered : x # y => x.value # y.value)
        => SameOnEveryOrder

\* C29 witness: FromValue has decomposed a value into two flags on a type of
\* three flags with distinct values.
C29_Witness ==
    /\ variant = "src" /\ kind = "SmartFlagEnum" /\ last.op = "FromValue"
    /\ Len(instances) >= 3
    /\ \A x, y \in Registered : x # y => x.value # y.value
    /\ Decomposed /\ Len(last.out) = 2

\* C30: when flag TryFromValue(v) returns true the result holds at least one
\* instance, and FromValueToString never succeeds with the empty string.
C30_SuccessIsNonEmpty ==
    (kind = "SmartFlagEnum" /\ last.ok /\ last.exc = "none") =>
        /\ (last.op \in FlagValueQueries) => (last.out # <<>>)
        /\ (last.op \in { "FromValueToString", "TryFromValueToString" })
               => (last.str # <<>>)

====
